---- MODULE Spec2Model ----
(***************************************************************************)
(* mcpower: the dataset registry (src/config/datasets.ts), the Python      *)
(* bridge client (src/bridge/pythonBridge.ts), the knowledge store with    *)
(* its single retry (src/store/knowledgeStore.ts, kept here as             *)
(* src/unnamed/part_015), the search tool handler (src/tools/search.ts)    *)
(* and the listing tool handler (src/tools/listDatasets.ts).               *)
(*                                                                         *)
(* Strings the code builds by concatenation are tuples of their parts:     *)
(* `Index directory not found: ${p}` is <<"Index directory not found: ",   *)
(* p>>, so "the message contains p" is a membership test on the tuple.     *)
(***************************************************************************)
EXTENDS Integers, Sequences, FiniteSets, TLC

VARIABLES
    rootExists,   \* whether this.datasetsPath exists on disk
    fs,           \* the subdirectories of the root: directory -> what it holds
    datasets,     \* DatasetRegistry.datasets: id -> DatasetWithStatus (or Absent)
    loadErrors,   \* DatasetRegistry.loadErrors, in push order
    loadPc,       \* "idle" | "running": a load() suspended at an await
    directories,  \* the `directories` array of the running load()
    loadIdx,      \* position of the for-loop of load() in `directories`
    loadsDone,    \* number of load() calls that have returned
    fsEdits,      \* number of changes made to the disk after the first load
    snapBefore,   \* the catalog as it was when the running/last load() began
    validatorRuns, \* directory -> validator subprocesses spawned for its manifest
                   \* by the running/last load()
    calls,        \* the handleSearch invocations: call -> its frame
    stores,       \* KnowledgeStoreCache.stores: id -> the Dataset the store holds
    built,        \* id -> number of `new KnowledgeStore(dataset)` executed for it
    listed,       \* what the last handleListDatasets call returned
    health,       \* what the last PythonBridge.healthCheck call did and returned
    cwd,          \* process.cwd(), a path
    paths,        \* one manifest's way through the constructor and resolvePath
    server        \* startServer: its position, and the module's datasetRegistry

vars == <<rootExists, fs, datasets, loadErrors, loadPc, directories, loadIdx,
          loadsDone, fsEdits, snapBefore, validatorRuns, calls, stores, built,
          listed, health, cwd, paths, server>>

regVars == <<rootExists, fs, datasets, loadErrors, loadPc, directories, loadIdx,
             loadsDone, fsEdits, snapBefore, validatorRuns>>

searchVars == <<calls, stores, built>>

toolVars == <<listed, health>>

procVars == <<cwd, paths, server>>

---------------------------------------------------------------------------
(* Bounds *)

NumDirs == 2
MaxLoads == 2
MaxCalls == 1
TickMs == 500

---------------------------------------------------------------------------
(* Program constants *)

MAX_MANIFEST_SIZE == 10240
RETRY_DELAY_MS == 1000
DEFAULT_TIMEOUT_MS == 10000
DEFAULT_TOP_K == 5
MIN_TOP_K == 1
MAX_TOP_K == 100
MAX_DATASET_ID_LEN == 64
MAX_QUERY_LEN == 1024

---------------------------------------------------------------------------
(* The disk *)

Dirs == 1..NumDirs

IdPool == {"docs-a", "docs-b"}

NoId == "-"

Absent == [status |-> "absent"]

\* What a subdirectory of the root can hold.  "removed": there is no such
\* directory entry.  The kinds from "noindex" on carry a manifest that passes
\* DatasetManifestSchema, with the id it declares.
BrokenKinds == {"nomanifest", "toobig", "badjson", "schema"}
SchemaOkKinds ==
    {"noindex", "nometadata", "ok",
     "validatorError", "validatorGarbage", "validatorTimeout", "validatorNull"}
FailingKinds == BrokenKinds \cup {"noindex", "nometadata"}
ReadyKinds == SchemaOkKinds \ FailingKinds

DirStates ==
    {[kind |-> "removed", id |-> NoId]}
    \cup {[kind |-> k, id |-> NoId] : k \in BrokenKinds}
    \cup {[kind |-> k, id |-> i] : k \in SchemaOkKinds, i \in IdPool}

\* What an entry of the root can be besides those: a regular file (its content
\* would pass for a loadable manifest declaring the id), or a directory with no
\* manifest.json of its own that has a loadable one in a subdirectory, one
\* level further down.
RootEntryStates ==
    DirStates
    \cup {[kind |-> k, id |-> i] : k \in {"file", "nested"}, i \in IdPool}

\* stat(manifestPath).size: only its relation to the ceiling matters.
ManifestSize(e) == IF e.kind = "toobig" THEN MAX_MANIFEST_SIZE + 1 ELSE MAX_MANIFEST_SIZE

ManifestPath(d) == <<"root", d, "manifest.json">>

\* resolvePath for the manifests of the registry model: `rel` is a plain
\* relative name and "root" stands for the absolute this.datasetsPath, so the
\* result is rel joined to the manifest's directory.  ResolvePathValue below is
\* the function on arbitrary path values.
ResolvePath(d, rel) == <<"root", d, rel>>

---------------------------------------------------------------------------
(* node:path, POSIX: a path is the sequence of its segments, "/" first when
   it is absolute *)

IsAbsolute(p) == Len(p) > 0 /\ p[1] = "/"

\* normalize: "." goes, ".." takes the segment before it along (the root
\* stays), a separator inside the path is no segment.
RECURSIVE NormalizeFrom(_, _, _)
NormalizeFrom(acc, p, i) ==
    IF i > Len(p) THEN acc
    ELSE IF p[i] = "." \/ (p[i] = "/" /\ i > 1) THEN NormalizeFrom(acc, p, i + 1)
    ELSE IF p[i] = ".."
    THEN IF Len(acc) > 0 /\ acc[Len(acc)] \notin {"/", ".."}
         THEN NormalizeFrom(SubSeq(acc, 1, Len(acc) - 1), p, i + 1)
         ELSE IF Len(acc) > 0 /\ acc[Len(acc)] = "/"
         THEN NormalizeFrom(acc, p, i + 1)
         ELSE NormalizeFrom(Append(acc, ".."), p, i + 1)
    ELSE NormalizeFrom(Append(acc, p[i]), p, i + 1)

Normalize(p) == NormalizeFrom(<<>>, p, 1)

\* join(a, b) and dirname(p).
Join(a, b) == Normalize(a \o b)

Dirname(p) == SubSeq(p, 1, Len(p) - 1)

\* resolve(p): an absolute path normalized, a relative one below process.cwd().
Resolve(wd, p) == IF IsAbsolute(p) THEN Normalize(p) ELSE Normalize(wd \o p)

\* this.datasetsPath, as the constructor leaves it.
DatasetsPath(wd, arg) == Resolve(wd, arg)

\* join(this.datasetsPath, dir.name, 'manifest.json')
ManifestFile(datasetsPath, name) == Join(Join(datasetsPath, <<name>>), <<"manifest.json">>)

ResolvePathValue_BelowCwd(wd, manifestPath, pathValue) == Resolve(wd, pathValue)

\* resolvePath(pathValue) of loadManifest(manifestPath), run while the working
\* directory is wd.
ResolvePathValue(wd, manifestPath, pathValue) ==
    LET manifestDir == Dirname(Resolve(wd, manifestPath)) IN
    IF IsAbsolute(pathValue) THEN Resolve(wd, pathValue)
    ELSE Resolve(wd, Join(manifestDir, pathValue))

---------------------------------------------------------------------------
(* PythonBridge.validateIndex *)

\* The validator's answer: JSON.parse(result.stdout), or the caught failure
\* turned into {status: 'error'}.  A validator killed at its timeout resolves
\* with an empty stdout (reject: false), which JSON.parse refuses; one that
\* prints `null` makes validateIndex return null.
ValidateIndex(e) ==
    CASE e.kind = "validatorError" -> [status |-> "error", error |-> "index corrupt"]
      [] e.kind = "validatorGarbage" -> [status |-> "error", error |-> "Unexpected token"]
      [] e.kind = "validatorTimeout" -> [status |-> "error", error |-> "Unexpected end of JSON input"]
      [] e.kind = "validatorNull" -> [status |-> "null", error |-> ""]
      [] OTHER -> [status |-> "ok", error |-> ""]

---------------------------------------------------------------------------
(* DatasetRegistry.loadManifest *)

\* The exception the inner try around validateIndex ends with, <<>> when the
\* index is found valid.
ValidationError(e) ==
    LET validationResult == ValidateIndex(e) IN
    CASE validationResult.status = "null" ->
             <<"Cannot read properties of null (reading 'status')">>
      [] validationResult.status = "error" ->
             <<"FAISS index validation failed: ", validationResult.error>>
      [] OTHER -> <<>>

ValidationCatch_Rethrow(validationError) == validationError

\* The catch around the validation: it logs a warning and falls through, so
\* nothing of the validation error reaches the outer try.
ValidationCatch(validationError) == <<>>

\* How many times loadManifest reads the manifest's content (readFile, then
\* JSON.parse): once, when stat() found the file and the size check let it by.
ManifestReads(d, e) ==
    IF e.kind \in {"removed", "nomanifest", "nested", "file"}
       \/ ManifestSize(e) > MAX_MANIFEST_SIZE
    THEN 0 ELSE 1

PathFailure_CeilingExclusive(d, e) ==
    CASE e.kind \in {"removed", "nomanifest", "nested"} -> <<"ENOENT: no such file or directory, stat ", ManifestPath(d)>>
      [] e.kind = "file" -> <<"ENOTDIR: not a directory, stat ", ManifestPath(d)>>
      [] ManifestSize(e) >= MAX_MANIFEST_SIZE -> <<"Manifest file exceeds maximum size (", ManifestSize(e), " > ", MAX_MANIFEST_SIZE, " bytes)">>
      [] e.kind = "badjson" -> <<"Unexpected token in JSON">>
      [] e.kind = "schema" -> <<"Required">>
      [] e.kind = "noindex" -> <<"Index directory not found: ", ResolvePath(d, "index")>>
      [] e.kind = "nometadata" -> <<"Metadata file not found: ", ResolvePath(d, "metadata.json")>>
      [] OTHER -> <<>>

\* The exception the try block of loadManifest ends with before it reaches
\* the validation, <<>> when it reaches it.
PathFailure(d, e) ==
    CASE e.kind \in {"removed", "nomanifest", "nested"} -> <<"ENOENT: no such file or directory, stat ", ManifestPath(d)>>
      [] e.kind = "file" -> <<"ENOTDIR: not a directory, stat ", ManifestPath(d)>>
      [] ManifestSize(e) > MAX_MANIFEST_SIZE -> <<"Manifest file exceeds maximum size (", ManifestSize(e), " > ", MAX_MANIFEST_SIZE, " bytes)">>
      [] e.kind = "badjson" -> <<"Unexpected token in JSON">>
      [] e.kind = "schema" -> <<"Required">>
      [] e.kind = "noindex" -> <<"Index directory not found: ", ResolvePath(d, "index")>>
      [] e.kind = "nometadata" -> <<"Metadata file not found: ", ResolvePath(d, "metadata.json")>>
      [] OTHER -> <<>>

\* The exception the try block of loadManifest ends with, <<>> when it reaches
\* the registration.
ManifestFailure(d, e) ==
    IF PathFailure(d, e) # <<>> THEN PathFailure(d, e)
    ELSE ValidationCatch(ValidationError(e))

ValidateIndexCalls_BeforePathChecks(d, e) ==
    IF e.kind \in SchemaOkKinds THEN 1 ELSE 0

\* How many times loadManifest calls pythonBridge.validateIndex: once, when
\* the manifest got past the schema and both access() checks.
ValidateIndexCalls(d, e) == IF PathFailure(d, e) = <<>> THEN 1 ELSE 0

\* How many subprocesses one validateIndex call spawns: its one execa call.
ValidateIndexSpawns(e) == 1

\* The manifest's own fields, as the schema hands them on.  The manifest of
\* directory 1 declares a defaultTopK, the others leave it to the schema.
ManifestName(d) == <<"Dataset of ", d>>
ManifestDescription(d) == <<"About ", d>>
ManifestTopK(d) == IF d = 1 THEN 4 * DEFAULT_TOP_K ELSE DEFAULT_TOP_K

ResolvedDataset(d, e) ==
    [id |-> e.id, src |-> d,
     name |-> ManifestName(d),
     description |-> ManifestDescription(d),
     index |-> ResolvePath(d, "index"),
     metadata |-> ResolvePath(d, "metadata.json"),
     defaultTopK |-> ManifestTopK(d),
     status |-> "ready"]

\* A catalog is the pair the registry's readers see.
Catalog(ds, errs) == [datasets |-> ds, loadErrors |-> errs]

LoadManifest_FirstWins(cat, d, e, now) ==
    IF ManifestFailure(d, e) # <<>>
    THEN Catalog(cat.datasets,
                 Append(cat.loadErrors,
                        [manifestPath |-> ManifestPath(d),
                         error |-> ManifestFailure(d, e),
                         timestamp |-> now]))
    ELSE IF cat.datasets[e.id] # Absent THEN cat
    ELSE Catalog([cat.datasets EXCEPT ![e.id] = ResolvedDataset(d, e)], cat.loadErrors)

LoadManifest_SkipsMissing(cat, d, e, now) ==
    IF e.kind = "nomanifest" THEN cat
    ELSE IF ManifestFailure(d, e) # <<>>
    THEN Catalog(cat.datasets,
                 Append(cat.loadErrors,
                        [manifestPath |-> ManifestPath(d),
                         error |-> ManifestFailure(d, e),
                         timestamp |-> now]))
    ELSE Catalog([cat.datasets EXCEPT ![e.id] = ResolvedDataset(d, e)], cat.loadErrors)

\* One loadManifest(manifestPath) call: a push on loadErrors or a set on datasets.
\* The validator's answer only reaches the log.  `now` stands for new Date():
\* the number of the load pass that records the error.
LoadManifest(cat, d, e, now) ==
    IF ManifestFailure(d, e) # <<>>
    THEN Catalog(cat.datasets,
                 Append(cat.loadErrors,
                        [manifestPath |-> ManifestPath(d),
                         error |-> ManifestFailure(d, e),
                         timestamp |-> now]))
    ELSE Catalog([cat.datasets EXCEPT ![e.id] = ResolvedDataset(d, e)], cat.loadErrors)

\* The catalog the rest of the for-loop of load() leaves, from position i on.
RECURSIVE LoadRest(_, _, _, _, _)
LoadRest(cat, dirs, i, disk, now) ==
    IF i > Len(dirs) THEN cat
    ELSE LoadRest(LoadManifest(cat, dirs[i], disk[dirs[i]], now), dirs, i + 1, disk, now)

---------------------------------------------------------------------------
(* DatasetRegistry readers *)

Get(id) == datasets[id]

Has(id) == datasets[id] # Absent /\ datasets[id].status = "ready"

List == {datasets[i] : i \in {j \in IdPool : datasets[j] # Absent}}

ListReady == {ds \in List : ds.status = "ready"}

GetErrors == loadErrors

GetStats_TotalFromScan ==
    [total |-> Len(directories),
     ready |-> Cardinality(ListReady),
     errors |-> Len(loadErrors)]

GetStats ==
    [total |-> Cardinality(List) + Len(loadErrors),
     ready |-> Cardinality(ListReady),
     errors |-> Len(loadErrors)]

---------------------------------------------------------------------------
(* DatasetRegistry.load *)

RECURSIVE Listing_EveryEntry(_, _)
Listing_EveryEntry(disk, i) ==
    IF i > NumDirs THEN <<>>
    ELSE (IF disk[i].kind = "removed" THEN <<>> ELSE <<i>>)
             \o Listing_EveryEntry(disk, i + 1)

\* readdir(...).filter(isDirectory): the subdirectories present, in listing order.
RECURSIVE Listing(_, _)
Listing(disk, i) ==
    IF i > NumDirs THEN <<>>
    ELSE (IF disk[i].kind \in {"removed", "file"} THEN <<>> ELSE <<i>>)
             \o Listing(disk, i + 1)

ReadDir(disk) == Listing(disk, 1)

\* load() up to its first loadManifest: access(), readdir(), the filter.
LoadEntry ==
    /\ loadPc = "idle"
    /\ loadsDone < MaxLoads
    /\ snapBefore' = Catalog(datasets, loadErrors)
    /\ validatorRuns' = [d \in Dirs |-> 0]
    /\ IF rootExists /\ ReadDir(fs) # <<>>
       THEN /\ loadPc' = "running"
            /\ directories' = ReadDir(fs)
            /\ loadIdx' = 1
            /\ UNCHANGED loadsDone
       ELSE /\ loadsDone' = loadsDone + 1
            /\ UNCHANGED <<loadPc, directories, loadIdx>>
    /\ UNCHANGED <<rootExists, fs, datasets, loadErrors, fsEdits, searchVars, toolVars>>

\* registry.load() called on a registry that exists.
LoadBegin == LoadEntry /\ UNCHANGED procVars

\* LoadStep as it would be if a failing manifest ended the scan.
LoadStep_AbortOnError ==
    /\ loadPc = "running"
    /\ LET d == directories[loadIdx]
           next == LoadManifest(Catalog(datasets, loadErrors), d, fs[d], loadsDone + 1)
       IN /\ datasets' = next.datasets
          /\ loadErrors' = next.loadErrors
          /\ validatorRuns' = [validatorRuns EXCEPT
                 ![d] = @ + ValidateIndexCalls(d, fs[d]) * ValidateIndexSpawns(fs[d])]
          /\ IF loadIdx = Len(directories) \/ ManifestFailure(d, fs[d]) # <<>>
             THEN /\ loadPc' = "idle"
                  /\ loadsDone' = loadsDone + 1
                  /\ UNCHANGED loadIdx
             ELSE /\ loadIdx' = loadIdx + 1
                  /\ UNCHANGED <<loadPc, loadsDone>>
    /\ UNCHANGED <<rootExists, fs, directories, fsEdits, snapBefore, searchVars, toolVars, procVars>>

\* One turn of the for-loop; after the last one load() logs and returns.
LoadStep ==
    /\ loadPc = "running"
    /\ LET d == directories[loadIdx]
           next == LoadManifest(Catalog(datasets, loadErrors), d, fs[d], loadsDone + 1)
       IN /\ datasets' = next.datasets
          /\ loadErrors' = next.loadErrors
          /\ validatorRuns' = [validatorRuns EXCEPT
                 ![d] = @ + ValidateIndexCalls(d, fs[d]) * ValidateIndexSpawns(fs[d])]
    /\ IF loadIdx = Len(directories)
       THEN /\ loadPc' = "idle"
            /\ loadsDone' = loadsDone + 1
            /\ UNCHANGED loadIdx
       ELSE /\ loadIdx' = loadIdx + 1
            /\ UNCHANGED <<loadPc, loadsDone>>
    /\ UNCHANGED <<rootExists, fs, directories, fsEdits, snapBefore, searchVars, toolVars, procVars>>

\* Somebody edits one dataset directory between two loads.
DiskEdit(d, e) ==
    /\ loadPc = "idle"
    /\ rootExists
    /\ loadsDone >= 1
    /\ loadsDone < MaxLoads
    /\ fsEdits < loadsDone
    /\ fs[d] # e
    /\ fs' = [fs EXCEPT ![d] = e]
    /\ fsEdits' = fsEdits + 1
    /\ UNCHANGED <<rootExists, datasets, loadErrors, loadPc, directories, loadIdx,
                   loadsDone, snapBefore, validatorRuns, searchVars, toolVars, procVars>>

\* Somebody removes the root directory, with all it holds, between two loads.
RootRemoved ==
    /\ loadPc = "idle"
    /\ rootExists
    /\ loadsDone >= 1
    /\ loadsDone < MaxLoads
    /\ fsEdits < loadsDone
    /\ rootExists' = FALSE
    /\ fs' = [d \in Dirs |-> [kind |-> "removed", id |-> NoId]]
    /\ fsEdits' = fsEdits + 1
    /\ UNCHANGED <<datasets, loadErrors, loadPc, directories, loadIdx,
                   loadsDone, snapBefore, validatorRuns, searchVars, toolVars, procVars>>

---------------------------------------------------------------------------
(* The search subprocess, as execa reports it *)

None == [kind |-> "none"]

Undefined == -1

Result(t, p) == [score |-> 1, title |-> t, path |-> p, snippet |-> "..."]

ResultLists ==
    {<<>>,
     <<Result("Install", "docs/install.md")>>,
     <<Result("Untitled", "")>>,
     <<Result("Usage", "docs/usage.md"), Result("Install", "docs/install.md")>>}

\* stdout: nothing, text that is not JSON, a JSON object with a results list,
\* a JSON object without one.
NoOutput == [kind |-> "empty", text |-> "", results |-> <<>>]
TextOutput(t) == [kind |-> "text", text |-> t, results |-> <<>>]
JsonResponse(rs) == [kind |-> "json", text |-> "{results}", results |-> rs]
JsonOther == [kind |-> "jsonNoResults", text |-> "{status}", results |-> <<>>]

\* JSON objects whose `results` is there but is no list: {"results": ""} and
\* {"results": {}}.
JsonResultsString == [kind |-> "jsonResultsString", text |-> "{results:''}", results |-> <<>>]
JsonResultsObject == [kind |-> "jsonResultsObject", text |-> "{results:{}}", results |-> <<>>]

Exited(code, out, err) ==
    [exitCode |-> code, timedOut |-> FALSE, stdout |-> out, stderr |-> err]

\* execa is called with reject: false: it resolves with the result also when
\* the subprocess fails or is killed at the timeout (no exit code then).
KilledAtTimeout(out, err) ==
    [exitCode |-> Undefined, timedOut |-> TRUE, stdout |-> out, stderr |-> err]

ExecaResults ==
    {Exited(0, JsonResponse(rs), NoOutput) : rs \in ResultLists}
    \cup {Exited(0, TextOutput("Loading model..."), NoOutput),
          Exited(0, JsonOther, NoOutput),
          Exited(0, JsonResultsString, NoOutput),
          Exited(0, JsonResultsObject, NoOutput),
          Exited(1, NoOutput, TextOutput("Traceback")),
          Exited(1, TextOutput("usage: bridge.py"), NoOutput),
          Exited(1, TextOutput("usage: bridge.py"), TextOutput("Traceback")),
          Exited(1, NoOutput, NoOutput),
          KilledAtTimeout(NoOutput, NoOutput)}

---------------------------------------------------------------------------
(* PythonBridge.search *)

BridgeSpawns_RetryOnFailure(res) ==
    IF res.timedOut \/ res.exitCode # 0 THEN 2 ELSE 1

\* How many subprocesses one PythonBridge.search call spawns: its one execa
\* call, whatever that one reports.
BridgeSpawns(res) == 1

\* A JavaScript string is truthy unless it is empty.
Truthy(out) == out.kind # "empty"

JsError(type, msg) == [kind |-> "error", type |-> type, message |-> msg, isExeca |-> FALSE, timedOut |-> FALSE]

\* result.stderr || result.stdout || 'Unknown Python bridge error'
Diagnostic_StdoutFirst(res) ==
    IF Truthy(res.stdout) THEN res.stdout.text
    ELSE IF Truthy(res.stderr) THEN res.stderr.text
    ELSE "Unknown Python bridge error"

Diagnostic(res) ==
    IF Truthy(res.stderr) THEN res.stderr.text
    ELSE IF Truthy(res.stdout) THEN res.stdout.text
    ELSE "Unknown Python bridge error"

\* The try block: what it throws, or None when it reaches `return response`.
BridgeTry(res) ==
    IF res.exitCode # 0
    THEN JsError("Error", <<"Python bridge failed: ", Diagnostic(res)>>)
    ELSE IF res.stdout.kind \in {"empty", "text"}
    THEN JsError("SyntaxError", <<"Unexpected token in JSON">>)
    ELSE IF res.stdout.kind = "jsonNoResults"
    THEN JsError("TypeError", <<"Cannot read properties of undefined (reading 'length')">>)
    ELSE None

\* isExecaError(error): an object with exitCode and timedOut properties.
IsExecaError(err) == err.isExeca

\* The catch block: the error search() rejects with.
BridgeCatch(err) ==
    IF IsExecaError(err) /\ err.timedOut
    THEN JsError("Error", <<"Python bridge timed out after ", DEFAULT_TIMEOUT_MS, "ms">>)
    ELSE IF err.type = "SyntaxError"
    THEN JsError("Error", <<"Invalid JSON response from Python bridge: ">> \o err.message)
    ELSE err

\* What response.results is after JSON.parse(result.stdout) as PythonBridgeResponse:
\* the cast checks nothing.  A string has a length (0 for ""), an object has none.
ResultsShape(out) ==
    CASE out.kind = "jsonResultsString" -> "string"
      [] out.kind = "jsonResultsObject" -> "object"
      [] OTHER -> "list"

\* PythonBridge.search(request) once the subprocess is over: the response it
\* resolves with or the error it rejects with.
BridgeSearch(res) ==
    IF BridgeTry(res) = None
    THEN [kind |-> "response", results |-> res.stdout.results,
          shape |-> ResultsShape(res.stdout)]
    ELSE BridgeCatch(BridgeTry(res))

---------------------------------------------------------------------------
(* SearchQuerySchema *)

NoTopK == 0 - 1000

\* The number n + 1/2, and whether a topK is a whole number (z.number().int()).
HalfAfter(n) == 0 - 2000 - n
IsInteger(k) == k > 0 - 2000

\* A query text: leading blanks, the characters between, trailing blanks.
Query(lead, body, trail) == [lead |-> lead, body |-> body, trail |-> trail]

Trim_KeepsBlanks(q) == q

Trim(q) == Query(0, q.body, 0)

QueryLen(q) == q.lead + q.body + q.trail

StrLen(str) ==
    CASE str = "" -> 0
      [] str = "docs-a" -> 6
      [] str = "docs-b" -> 6
      [] str = "unknown-id" -> 10
      [] str = "an-id-of-65-characters" -> MAX_DATASET_ID_LEN + 1

FirstIssue_NoTopKCheck(args) ==
    IF StrLen(args.dataset) < 1 \/ StrLen(args.dataset) > MAX_DATASET_ID_LEN THEN "dataset"
    ELSE IF QueryLen(Trim(args.query)) < 1 \/ QueryLen(Trim(args.query)) > MAX_QUERY_LEN THEN "query"
    ELSE ""

\* safeParse: the path of the first issue, "" when the arguments pass.
FirstIssue(args) ==
    IF StrLen(args.dataset) < 1 \/ StrLen(args.dataset) > MAX_DATASET_ID_LEN THEN "dataset"
    ELSE IF QueryLen(Trim(args.query)) < 1 \/ QueryLen(Trim(args.query)) > MAX_QUERY_LEN THEN "query"
    ELSE IF args.topK # NoTopK
            /\ (~IsInteger(args.topK) \/ args.topK < MIN_TOP_K \/ args.topK > MAX_TOP_K)
         THEN "topK"
    ELSE ""

\* validationResult.data: the query comes out trimmed.
Parsed(args) == [args EXCEPT !.query = Trim(args.query)]

SearchArgs ==
    [dataset : {"docs-a", "docs-b", "unknown-id", "", "an-id-of-65-characters"},
     query : {Query(0, 5, 0), Query(3, 0, 0)},
     topK : {NoTopK, 7, 0, MAX_TOP_K + 1}]

\* Arguments at the limits of the schema.
BoundaryArgs ==
    [dataset : {"docs-a", "unknown-id", ""},
     query : {Query(0, 0, 0), Query(3, 0, 0), Query(0, 1, 0),
              Query(0, MAX_QUERY_LEN, 0), Query(2, MAX_QUERY_LEN, 2),
              Query(0, MAX_QUERY_LEN + 1, 0), Query(1, MAX_QUERY_LEN + 1, 0)},
     topK : {NoTopK, MIN_TOP_K - 1, MIN_TOP_K, MAX_TOP_K, MAX_TOP_K + 1,
             0 - 1, HalfAfter(2)}]

---------------------------------------------------------------------------
(* KnowledgeStore.search *)

Calls == 1..MaxCalls

IdleFrame ==
    [pc |-> "idle", raw |-> None, args |-> None, dataset |-> None,
     store |-> None, handle |-> None, request |-> None,
     sent |-> <<>>, spawns |-> 0,
     attempts |-> 0, waited |-> 0,
     firstError |-> None, lastExec |-> None, lastBridge |-> None,
     outcome |-> None, response |-> None]

\* const k = topK ?? this.dataset.defaultTopK, and the request built from it.
Request(store, query, topK) ==
    [command |-> "search",
     indexPath |-> store.index,
     metadataPath |-> store.metadata,
     query |-> query,
     topK |-> IF topK = NoTopK THEN store.defaultTopK ELSE topK]

\* The Error thrown when the retry failed too.
SearchFailed_FirstMessage(id, first, retry) ==
    JsError("Error", <<"Search failed for dataset ", id, ": ">> \o first.message)

SearchFailed(id, first, retry) ==
    JsError("Error", <<"Search failed for dataset ", id, ": ">> \o retry.message)

---------------------------------------------------------------------------
(* getDatasetRegistry *)

\* Whether getDatasetRegistry() returns the registry; it throws otherwise.
RegistryInitialized == server.registry = "set"

NotInitialized == JsError("Error", <<"Dataset registry not initialized">>)

---------------------------------------------------------------------------
(* handleSearch *)

ValidationResponse(args) ==
    [isError |-> TRUE,
     text |-> <<"Invalid search parameters: ", " at ", FirstIssue(args)>>,
     results |-> <<>>]

NotFoundResponse_NoList(id) ==
    [isError |-> TRUE,
     text |-> <<"Dataset '", id, "' not found. Available datasets: ", {}>>,
     results |-> <<>>]

NotFoundResponse(id) ==
    [isError |-> TRUE,
     text |-> <<"Dataset '", id, "' not found. Available datasets: ",
                {ds.id : ds \in ListReady}>>,
     results |-> <<>>]

\* The response built from what store.search returned.
ResultsResponse_BestFirst(q, results) ==
    IF Len(results) = 0
    THEN [isError |-> FALSE,
          text |-> <<"No results found for query: ", q.query, " in dataset ", q.dataset>>,
          results |-> <<>>]
    ELSE [isError |-> FALSE,
          text |-> <<"Found ", Len(results), " result(s) for ", q.query>>,
          results |-> [i \in 1..Len(results) |->
                          [rank |-> i, result |-> results[Len(results) + 1 - i]]]]

ResultsResponse(q, results) ==
    IF Len(results) = 0
    THEN [isError |-> FALSE,
          text |-> <<"No results found for query: ", q.query, " in dataset ", q.dataset>>,
          results |-> <<>>]
    ELSE [isError |-> FALSE,
          text |-> <<"Found ", Len(results), " result(s) for ", q.query>>,
          results |-> [i \in 1..Len(results) |-> [rank |-> i, result |-> results[i]]]]

FailedResponse_Swallowed(err) ==
    [isError |-> FALSE, text |-> <<"No results found for query: ">>, results |-> <<>>]

\* The catch block of handleSearch.
FailedResponse(err) ==
    [isError |-> TRUE, text |-> <<"Search failed: ">> \o err.message, results |-> <<>>]

\* handleSearch after store.search resolved with b.results: `results.map` of a
\* value that is no array and no empty string throws into the catch block.
SearchResponse(q, b) ==
    IF b.shape = "object"
    THEN FailedResponse(JsError("TypeError", <<"results.map is not a function">>))
    ELSE ResultsResponse(q, b.results)

\* KnowledgeStoreCache.getStore: how many stores it constructs, one on a miss.
NewStores_Always(cache, dataset) == 1

NewStores(cache, dataset) == IF cache[dataset.id] = Absent THEN 1 ELSE 0

\* KnowledgeStoreCache.getStore: the cached store's dataset, created on a miss.
GetStore(cache, dataset) ==
    IF cache[dataset.id] = Absent THEN [cache EXCEPT ![dataset.id] = dataset] ELSE cache

InFlight(f) == f.pc \in {"attempt1", "delay", "attempt2"}

CanStart_OnePerDataset(c, args) ==
    /\ calls[c].pc = "idle"
    /\ \A o \in DOMAIN calls :
           InFlight(calls[o]) => calls[o].args.dataset # args.dataset

\* Whether a call can run: it has not started yet.  Nothing is awaited or
\* locked between the entry of handleSearch and the spawn of its subprocess.
CanStart(c, args) == calls[c].pc = "idle"

\* handleSearch from its entry to its first await: validation, the registry
\* lookup, getStore, and store.search up to the first subprocess spawn.
HandleSearch(c, args) ==
    /\ CanStart(c, args)
    /\ IF FirstIssue(args) # ""
       THEN /\ calls' = [calls EXCEPT ![c] = [IdleFrame EXCEPT
                           !.pc = "done", !.raw = args, !.args = args,
                           !.response = ValidationResponse(args)]]
            /\ UNCHANGED <<stores, built>>
       ELSE IF ~RegistryInitialized
       THEN /\ calls' = [calls EXCEPT ![c] = [IdleFrame EXCEPT
                           !.pc = "done", !.raw = args, !.args = Parsed(args),
                           !.outcome = NotInitialized,
                           !.response = FailedResponse(NotInitialized)]]
            /\ UNCHANGED <<stores, built>>
       ELSE IF args.dataset \notin IdPool \/ ~Has(args.dataset)
       THEN /\ calls' = [calls EXCEPT ![c] = [IdleFrame EXCEPT
                           !.pc = "done", !.raw = args, !.args = Parsed(args),
                           !.response = NotFoundResponse(args.dataset)]]
            /\ UNCHANGED <<stores, built>>
       ELSE /\ stores' = GetStore(stores, Get(args.dataset))
            /\ built' = [built EXCEPT ![args.dataset] = @ + NewStores(stores, Get(args.dataset))]
            /\ calls' = [calls EXCEPT ![c] = [IdleFrame EXCEPT
                           !.pc = "attempt1", !.raw = args, !.args = Parsed(args),
                           !.dataset = Get(args.dataset),
                           !.store = stores'[args.dataset],
                           !.handle = [id |-> args.dataset,
                                       serial |-> built'[args.dataset]],
                           !.request = Request(stores'[args.dataset],
                                               Parsed(args).query, args.topK),
                           !.sent = <<Request(stores'[args.dataset],
                                              Parsed(args).query, args.topK)>>,
                           !.attempts = 1]]
    /\ UNCHANGED <<regVars, toolVars, procVars>>

AfterFirstAttempt_EmptyIsFailure(f, res) ==
    LET b == BridgeSearch(res) IN
    IF b.kind = "response" /\ Len(b.results) > 0
    THEN [f EXCEPT !.pc = "done", !.lastExec = res, !.lastBridge = b,
                   !.outcome = [kind |-> "results", results |-> b.results],
                   !.response = SearchResponse(f.args, b)]
    ELSE [f EXCEPT !.pc = "delay", !.lastExec = res, !.lastBridge = b,
                   !.firstError = JsError("Error", <<"no results">>), !.waited = 0]

\* The frame after the first executeSearch settled.
AfterFirstAttempt(f, res) ==
    LET b == BridgeSearch(res) IN
    IF b.kind = "response"
    THEN [f EXCEPT !.pc = "done", !.lastExec = res, !.lastBridge = b,
                   !.outcome = [kind |-> "results", results |-> b.results],
                   !.response = SearchResponse(f.args, b)]
    ELSE [f EXCEPT !.pc = "delay", !.lastExec = res, !.lastBridge = b,
                   !.firstError = b, !.waited = 0]

FirstAttemptReturns(c, res) ==
    /\ calls[c].pc = "attempt1"
    /\ calls' = [calls EXCEPT ![c] =
                    [AfterFirstAttempt(calls[c], res) EXCEPT
                        !.spawns = @ + BridgeSpawns(res)]]
    /\ UNCHANGED <<regVars, toolVars, procVars, stores, built>>

\* Time passes while the call waits in delay(1000).
DelayTick(c) ==
    /\ calls[c].pc = "delay"
    /\ calls[c].waited < RETRY_DELAY_MS
    /\ calls' = [calls EXCEPT ![c].waited = calls[c].waited + TickMs]
    /\ UNCHANGED <<regVars, toolVars, procVars, stores, built>>

\* Whether the timer of delay(1000) has fired.
TimerFired_Immediately(f) == TRUE

TimerFired(f) == f.waited >= RETRY_DELAY_MS

\* The frame when the retry is issued.
RetryFrame_StartOver(f) == [f EXCEPT !.pc = "attempt1", !.spawns = 0]

RetryFrame_RebuiltRequest(f) ==
    [f EXCEPT !.pc = "attempt2", !.attempts = f.attempts + 1,
              !.sent = Append(f.sent, Request(f.store, f.args.query, NoTopK))]

RetryFrame(f) ==
    [f EXCEPT !.pc = "attempt2", !.attempts = f.attempts + 1,
              !.sent = Append(f.sent, f.request)]

\* The delay is over: the second executeSearch is issued.
Retry(c) ==
    /\ calls[c].pc = "delay"
    /\ TimerFired(calls[c])
    /\ calls' = [calls EXCEPT ![c] = RetryFrame(calls[c])]
    /\ UNCHANGED <<regVars, toolVars, procVars, stores, built>>

\* The frame after the second executeSearch settled.
AfterRetry_RetryAgain(f, res) ==
    LET b == BridgeSearch(res) IN
    IF b.kind = "response"
    THEN [f EXCEPT !.pc = "done", !.lastExec = res, !.lastBridge = b,
                   !.outcome = [kind |-> "results", results |-> b.results],
                   !.response = SearchResponse(f.args, b)]
    ELSE [f EXCEPT !.pc = "delay", !.lastExec = res, !.lastBridge = b, !.waited = 0]

AfterRetry_EmptyResults(f, res) ==
    LET b == BridgeSearch(res) IN
    IF b.kind = "response"
    THEN [f EXCEPT !.pc = "done", !.lastExec = res, !.lastBridge = b,
                   !.outcome = [kind |-> "results", results |-> <<>>],
                   !.response = ResultsResponse(f.args, <<>>)]
    ELSE [f EXCEPT !.pc = "done", !.lastExec = res, !.lastBridge = b,
                   !.outcome = SearchFailed(f.store.id, f.firstError, b),
                   !.response = FailedResponse(SearchFailed(f.store.id, f.firstError, b))]

AfterRetry(f, res) ==
    LET b == BridgeSearch(res) IN
    IF b.kind = "response"
    THEN [f EXCEPT !.pc = "done", !.lastExec = res, !.lastBridge = b,
                   !.outcome = [kind |-> "results", results |-> b.results],
                   !.response = SearchResponse(f.args, b)]
    ELSE [f EXCEPT !.pc = "done", !.lastExec = res, !.lastBridge = b,
                   !.outcome = SearchFailed(f.store.id, f.firstError, b),
                   !.response = FailedResponse(SearchFailed(f.store.id, f.firstError, b))]

RetryReturns(c, res) ==
    /\ calls[c].pc = "attempt2"
    /\ calls' = [calls EXCEPT ![c] =
                    [AfterRetry(calls[c], res) EXCEPT
                        !.spawns = @ + BridgeSpawns(res)]]
    /\ UNCHANGED <<regVars, toolVars, procVars, stores, built>>

---------------------------------------------------------------------------
(* handleListDatasets *)

\* The arguments of a knowledge.listDatasets call: an object with includeErrors
\* left out, a boolean, or a string, with or without a key the schema does not
\* know; or no object at all: null, undefined, an array.
ListArgs ==
    [shape : {"object"}, includeErrors : {"omitted", "true", "false", "yes"},
     extraKey : BOOLEAN]
    \cup {[shape |-> sh, includeErrors |-> "omitted", extraKey |-> FALSE] :
              sh \in {"null", "undefined", "array"}}

\* ListDatasetsArgsSchema.safeParse: the issues, as `path: message` texts.
ListIssues(args) ==
    CASE args.shape = "undefined" -> <<<<"", ": ", "Required">>>>
      [] args.shape \in {"null", "array"} ->
             <<<<"", ": ", "Expected object, received ", args.shape>>>>
      [] OTHER ->
             (IF args.includeErrors = "yes"
              THEN <<<<"includeErrors", ": ", "Expected boolean, received string">>>>
              ELSE <<>>)
             \o (IF args.extraKey
                 THEN <<<<"", ": ", "Unrecognized key(s) in object: 'verbose'">>>>
                 ELSE <<>>)

IncludeErrors_Always(args) == TRUE

\* parseResult.data.includeErrors, false by default.
IncludeErrors(args) == args.includeErrors = "true"

\* pathParts[pathParts.length - 2] of manifestPath.split('/').
ParentDirName(manifestPath) == manifestPath[Len(manifestPath) - 1]

\* The name of subdirectory d, the text ParentDirName stands for: the
\* subdirectories are named like dataset ids, datasets/<name>/manifest.json.
DirName(d) ==
    CASE d = 1 -> "docs-a"
      [] d = 2 -> "docs-b"
      [] OTHER -> "docs-c"

ReadyItem(dataset) ==
    [id |-> dataset.id, name |-> dataset.name, description |-> dataset.description,
     status |-> "ready", error |-> <<>>]

ErrorItem(error) ==
    [id |-> ParentDirName(error.manifestPath),
     name |-> ParentDirName(error.manifestPath),
     description |-> "Failed to load dataset",
     status |-> "error",
     error |-> error.error]

Plural(n) == IF n # 1 THEN "s" ELSE ""

\* The header and the footer of the response text, without the duration.
ListHeader(inc, totalCount, readyCount, errorCount) ==
    <<"Found ", totalCount, " dataset", Plural(totalCount)>>
    \o (IF inc /\ errorCount > 0
        THEN <<" (", readyCount, " ready, ", errorCount, " with errors)">>
        ELSE <<>>)

ListFooter(inc, totalCount, readyCount, errorCount) ==
    <<"Total: ", totalCount, " datasets | Ready: ", readyCount>>
    \o (IF inc /\ errorCount > 0 THEN <<" | Errors: ", errorCount>> ELSE <<>>)

RegistryReads_BeforeParse(args) ==
    <<"getDatasetRegistry", "listReady">>
    \o (IF IncludeErrors(args) THEN <<"getErrors">> ELSE <<>>)

\* The calls handleListDatasets makes on the registry, in order: none when
\* safeParse turned the arguments down.
RegistryReads(args) ==
    IF ListIssues(args) # <<>> THEN <<>>
    ELSE IF ~RegistryInitialized THEN <<"getDatasetRegistry">>
    ELSE <<"getDatasetRegistry", "listReady">>
         \o (IF IncludeErrors(args) THEN <<"getErrors">> ELSE <<>>)

\* What handleListDatasets returns.  The text has one block per item of
\* `results`, sorted by id: kept as the set of the ready items and the list of
\* the error items, which is what the blocks say whatever their order.
HandleListDatasets(args) ==
    IF ListIssues(args) # <<>>
    THEN [isError |-> TRUE, args |-> args, reads |-> RegistryReads(args),
          header |-> <<"Invalid arguments: ", ListIssues(args)>>,
          ready |-> {}, errors |-> <<>>, footer |-> <<>>]
    ELSE IF ~RegistryInitialized
    THEN [isError |-> TRUE, args |-> args, reads |-> RegistryReads(args),
          header |-> <<"Error listing datasets: ">> \o NotInitialized.message,
          ready |-> {}, errors |-> <<>>, footer |-> <<>>]
    ELSE LET inc == IncludeErrors(args)
             ready == {ReadyItem(ds) : ds \in ListReady}
             errors == IF inc THEN [k \in DOMAIN GetErrors |-> ErrorItem(GetErrors[k])]
                       ELSE <<>>
             totalCount == Cardinality(ready) + Len(errors)
             readyCount == Cardinality(ready)
             errorCount == Len(errors)
         IN [isError |-> FALSE, args |-> args, reads |-> RegistryReads(args),
             header |-> ListHeader(inc, totalCount, readyCount, errorCount),
             ready |-> ready, errors |-> errors,
             footer |-> ListFooter(inc, totalCount, readyCount, errorCount)]

\* One knowledge.listDatasets call; the handler awaits nothing.
ListDatasets(args) ==
    /\ listed' = HandleListDatasets(args)
    /\ UNCHANGED <<regVars, searchVars, health, procVars>>

---------------------------------------------------------------------------
(* PythonBridge.healthCheck *)

\* What the health-check subprocess can do: report, print text that is not
\* JSON, fail with a report, be killed at its timeout.
HealthResults ==
    {Exited(0, [kind |-> "json", text |-> "{status:healthy}", results |-> <<>>], NoOutput),
     Exited(0, TextOutput("Python 3.11"), NoOutput),
     Exited(1, [kind |-> "json", text |-> "{status:unhealthy}", results |-> <<>>], NoOutput),
     KilledAtTimeout(NoOutput, NoOutput)}

\* How many subprocesses one healthCheck call spawns: its one execa call.
HealthCheckSpawns(res) == 1

\* JSON.parse(result.stdout), or the caught failure as {status: 'unhealthy'}.
HealthCheckResult(res) ==
    IF res.stdout.kind = "json" THEN [status |-> res.stdout.text, error |-> ""]
    ELSE [status |-> "unhealthy",
          error |-> IF res.stdout.kind = "empty" THEN "Unexpected end of JSON input"
                    ELSE "Unexpected token"]

HealthCheck(res) ==
    /\ health' = [exec |-> res, spawns |-> HealthCheckSpawns(res),
                  result |-> HealthCheckResult(res)]
    /\ UNCHANGED <<regVars, searchVars, listed, procVars>>

---------------------------------------------------------------------------
(* Callers of the registry and of the store *)

\* get(id) and list() hand out the registry's own entry object, and the store
\* built from it keeps that same object (getDataset() returns it): a caller's
\* assignment to a field of what it got is an assignment to that one object.
Elsewhere == <<"tmp", "elsewhere">>

WriteThrough(entry) == [entry EXCEPT !.index = Elsewhere]

\* A caller assigns to the index field of the dataset it got from get(id).
CallerWritesDataset(id) ==
    /\ datasets[id] # Absent
    /\ datasets[id].index # Elsewhere
    /\ datasets' = [datasets EXCEPT ![id] = WriteThrough(@)]
    /\ stores' = [stores EXCEPT ![id] = IF @ = Absent THEN @ ELSE WriteThrough(@)]
    /\ UNCHANGED <<rootExists, fs, loadErrors, loadPc, directories, loadIdx,
                   loadsDone, fsEdits, snapBefore, validatorRuns, calls, built,
                   toolVars, procVars>>

\* A caller assigns to the index field of what a cached store's getDataset()
\* returned.
CallerWritesStoreDataset(id) ==
    /\ stores[id] # Absent
    /\ stores[id].index # Elsewhere
    /\ datasets' = [datasets EXCEPT ![id] = WriteThrough(@)]
    /\ stores' = [stores EXCEPT ![id] = WriteThrough(@)]
    /\ UNCHANGED <<rootExists, fs, loadErrors, loadPc, directories, loadIdx,
                   loadsDone, fsEdits, snapBefore, validatorRuns, calls, built,
                   toolVars, procVars>>

\* getErrors() hands out the registry's own array: a caller empties it.
CallerEmptiesErrors ==
    /\ loadErrors # <<>>
    /\ loadErrors' = <<>>
    /\ UNCHANGED <<rootExists, fs, datasets, loadPc, directories, loadIdx,
                   loadsDone, fsEdits, snapBefore, validatorRuns, searchVars,
                   toolVars, procVars>>

---------------------------------------------------------------------------
(* Specifications *)

NoCalls == [c \in Calls |-> IdleFrame]

\* The working directory the process is started in.
StartDir == <<"/", "srv", "mcpower">>

\* startServer has returned: the module's datasetRegistry is set and loaded,
\* the transport is connected.
Serving == [pc |-> "connected", registry |-> "set"]

\* A process in which startServer has returned and no manifest is on its way
\* through resolvePath.
ServerUp == cwd = StartDir /\ paths = None /\ server = Serving

NoStores == [i \in IdPool |-> Absent]

NoneBuilt == [i \in IdPool |-> 0]

FreshRegistry ==
    /\ datasets = [i \in IdPool |-> Absent]
    /\ loadErrors = <<>>
    /\ loadPc = "idle"
    /\ directories = <<>>
    /\ loadIdx = 0
    /\ loadsDone = 0
    /\ fsEdits = 0
    /\ snapBefore = Catalog([i \in IdPool |-> Absent], <<>>)
    /\ validatorRuns = [d \in Dirs |-> 0]
    /\ listed = None
    /\ health = None
    /\ ServerUp

\* A fresh registry over any disk, loaded once; no tool call is served.
LoadInit ==
    /\ rootExists \in BOOLEAN
    /\ fs \in [Dirs -> DirStates]
    /\ ~rootExists => \A d \in Dirs : fs[d].kind = "removed"
    /\ FreshRegistry
    /\ calls = NoCalls
    /\ stores = NoStores
    /\ built = NoneBuilt

LoadNext ==
    \/ (loadsDone = 0 /\ LoadBegin)
    \/ LoadStep

LoadSpec == LoadInit /\ [][LoadNext]_vars

\* A fresh registry over a root that also holds regular files and directories
\* whose only manifest lies one level further down, loaded once.
TraversalStates ==
    {e \in RootEntryStates : e.kind \in {"removed", "nomanifest", "badjson", "ok", "file", "nested"}}

TraversalInit ==
    /\ rootExists = TRUE
    /\ fs \in [Dirs -> TraversalStates]
    /\ FreshRegistry
    /\ calls = NoCalls
    /\ stores = NoStores
    /\ built = NoneBuilt

TraversalSpec == TraversalInit /\ [][LoadNext]_vars

\* One manifest on its way from `new DatasetRegistry(arg)` to the resolved
\* paths of its dataset, while the process changes its working directory.
WorkDirs == {StartDir, <<"/", "tmp">>}

RootArgs == {<<"/", "var", "datasets">>, <<"datasets">>, <<".", "datasets">>}

PathValues ==
    {<<"index">>, <<"..", "shared", "index">>,
     <<"/", "data", "index">>, <<"/", "data", ".", "index">>}

\* new DatasetRegistry(arg)
Construct ==
    /\ paths.pc = "new"
    /\ paths' = [paths EXCEPT !.pc = "constructed",
                              !.datasetsPath = DatasetsPath(cwd, paths.arg)]
    /\ UNCHANGED <<regVars, searchVars, toolVars, cwd, server>>

\* process.chdir(wd)
Chdir(wd) ==
    /\ wd # cwd
    /\ cwd' = wd
    /\ UNCHANGED <<regVars, searchVars, toolVars, paths, server>>

\* loadManifest of the one subdirectory, up to the resolved dataset.
ResolveManifest ==
    /\ paths.pc = "constructed"
    /\ LET manifestPath == ManifestFile(paths.datasetsPath, paths.dir) IN
       paths' = [paths EXCEPT
                    !.pc = "resolved",
                    !.manifestPath = manifestPath,
                    !.index = ResolvePathValue(cwd, manifestPath, paths.indexValue),
                    !.metadata = ResolvePathValue(cwd, manifestPath, paths.metadataValue)]
    /\ UNCHANGED <<regVars, searchVars, toolVars, cwd, server>>

PathInit ==
    /\ rootExists = TRUE
    /\ fs = [d \in Dirs |-> [kind |-> "removed", id |-> NoId]]
    /\ datasets = [i \in IdPool |-> Absent]
    /\ loadErrors = <<>>
    /\ loadPc = "idle"
    /\ directories = <<>>
    /\ loadIdx = 0
    /\ loadsDone = 0
    /\ fsEdits = 0
    /\ snapBefore = Catalog([i \in IdPool |-> Absent], <<>>)
    /\ validatorRuns = [d \in Dirs |-> 0]
    /\ calls = NoCalls
    /\ stores = NoStores
    /\ built = NoneBuilt
    /\ listed = None
    /\ health = None
    /\ server = Serving
    /\ cwd \in WorkDirs
    /\ \E arg \in RootArgs, iv \in PathValues, mv \in PathValues :
           paths = [pc |-> "new", arg |-> arg, dir |-> "docs",
                    indexValue |-> iv, metadataValue |-> mv,
                    datasetsPath |-> <<>>, manifestPath |-> <<>>,
                    index |-> <<>>, metadata |-> <<>>]

PathNext ==
    \/ Construct
    \/ \E wd \in WorkDirs : Chdir(wd)
    \/ ResolveManifest

PathSpec == PathInit /\ [][PathNext]_vars

\* The same registry instance loaded again and again, the disk edited in between.
ReloadDirStates ==
    {e \in DirStates : e.kind \in {"removed", "badjson", "ok"}}

ReloadInit ==
    /\ rootExists \in BOOLEAN
    /\ fs \in [Dirs -> ReloadDirStates]
    /\ ~rootExists => \A d \in Dirs : fs[d].kind = "removed"
    /\ FreshRegistry
    /\ calls = NoCalls
    /\ stores = NoStores
    /\ built = NoneBuilt

ReloadNext ==
    \/ LoadBegin
    \/ LoadStep
    \/ \E d \in Dirs, e \in ReloadDirStates : DiskEdit(d, e)
    \/ RootRemoved

ReloadSpec == ReloadInit /\ [][ReloadNext]_vars

\* A server whose registry was loaded at startup from the disk of Scenario A
\* (docs-a loadable, every other directory with a manifest that fails the
\* schema), serving search calls.
ScenarioDisk ==
    [d \in Dirs |-> IF d = 1 THEN [kind |-> "ok", id |-> "docs-a"]
                    ELSE [kind |-> "schema", id |-> NoId]]

SearchInit ==
    /\ rootExists = TRUE
    /\ fs = ScenarioDisk
    /\ LET cat == LoadRest(Catalog([i \in IdPool |-> Absent], <<>>),
                           ReadDir(ScenarioDisk), 1, ScenarioDisk, 1)
       IN /\ datasets = cat.datasets
          /\ loadErrors = cat.loadErrors
    /\ loadPc = "idle"
    /\ directories = ReadDir(ScenarioDisk)
    /\ loadIdx = Len(directories)
    /\ loadsDone = 1
    /\ fsEdits = 0
    /\ snapBefore = Catalog([i \in IdPool |-> Absent], <<>>)
    /\ validatorRuns = [d \in Dirs |-> ValidateIndexCalls(d, ScenarioDisk[d])
                                         * ValidateIndexSpawns(ScenarioDisk[d])]
    /\ listed = None
    /\ health = None
    /\ ServerUp
    /\ calls = NoCalls
    /\ stores = NoStores
    /\ built = NoneBuilt

SearchNext ==
    \/ \E c \in Calls, args \in SearchArgs : HandleSearch(c, args)
    \/ \E c \in Calls, res \in ExecaResults : FirstAttemptReturns(c, res)
    \/ \E c \in Calls : DelayTick(c)
    \/ \E c \in Calls : Retry(c)
    \/ \E c \in Calls, res \in ExecaResults : RetryReturns(c, res)

SearchSpec == SearchInit /\ [][SearchNext]_vars

\* Every subprocess exits or is killed at its timeout, and timers fire.
SearchFairness ==
    \A c \in Calls :
        /\ WF_vars(\E res \in ExecaResults : FirstAttemptReturns(c, res))
        /\ WF_vars(DelayTick(c))
        /\ WF_vars(Retry(c))
        /\ WF_vars(\E res \in ExecaResults : RetryReturns(c, res))

SearchFairSpec == SearchInit /\ [][SearchNext]_vars /\ SearchFairness

\* The server of Scenario A receiving calls at the limits of the schema.
BoundaryNext == \E c \in Calls, args \in BoundaryArgs : HandleSearch(c, args)

BoundarySpec == SearchInit /\ [][BoundaryNext]_vars

\* Several tool calls in flight at once on one server: both ids are ready,
\* every call is well-formed, and each subprocess answers, fails or is killed.
ConcCalls == 1..(MaxCalls + 1)

ConcDisk ==
    [d \in Dirs |-> [kind |-> "ok", id |-> IF d = 1 THEN "docs-a" ELSE "docs-b"]]

ConcArgs ==
    [dataset : IdPool, query : {Query(0, 5, 0)}, topK : {NoTopK}]

ConcResults ==
    {Exited(0, JsonResponse(<<Result("Install", "docs/install.md")>>), NoOutput),
     Exited(1, NoOutput, TextOutput("Traceback")),
     KilledAtTimeout(NoOutput, NoOutput)}

ConcInit ==
    /\ rootExists = TRUE
    /\ fs = ConcDisk
    /\ LET cat == LoadRest(Catalog([i \in IdPool |-> Absent], <<>>),
                           ReadDir(ConcDisk), 1, ConcDisk, 1)
       IN /\ datasets = cat.datasets
          /\ loadErrors = cat.loadErrors
    /\ loadPc = "idle"
    /\ directories = ReadDir(ConcDisk)
    /\ loadIdx = Len(directories)
    /\ loadsDone = 1
    /\ fsEdits = 0
    /\ snapBefore = Catalog([i \in IdPool |-> Absent], <<>>)
    /\ validatorRuns = [d \in Dirs |-> ValidateIndexCalls(d, ConcDisk[d])
                                         * ValidateIndexSpawns(ConcDisk[d])]
    /\ listed = None
    /\ health = None
    /\ ServerUp
    /\ calls = [c \in ConcCalls |-> IdleFrame]
    /\ stores = NoStores
    /\ built = NoneBuilt

ConcNext ==
    \/ \E c \in ConcCalls, args \in ConcArgs : HandleSearch(c, args)
    \/ \E c \in ConcCalls, res \in ConcResults : FirstAttemptReturns(c, res)
    \/ \E c \in ConcCalls : DelayTick(c)
    \/ \E c \in ConcCalls : Retry(c)
    \/ \E c \in ConcCalls, res \in ConcResults : RetryReturns(c, res)

ConcSpec == ConcInit /\ [][ConcNext]_vars

\* A server whose registry, loaded at startup, is loaded again after a manifest
\* changed on disk, with searches before and after.
RefreshDirStates ==
    {e \in DirStates : e.kind \in {"removed", "ok"}}

RefreshResults ==
    {Exited(0, JsonResponse(<<Result("Install", "docs/install.md")>>), NoOutput)}

RefreshInit ==
    /\ rootExists = TRUE
    /\ fs \in [Dirs -> RefreshDirStates]
    /\ LET cat == LoadRest(Catalog([i \in IdPool |-> Absent], <<>>),
                           ReadDir(fs), 1, fs, 1)
       IN /\ datasets = cat.datasets
          /\ loadErrors = cat.loadErrors
    /\ loadPc = "idle"
    /\ directories = ReadDir(fs)
    /\ loadIdx = Len(directories)
    /\ loadsDone = 1
    /\ fsEdits = 0
    /\ snapBefore = Catalog([i \in IdPool |-> Absent], <<>>)
    /\ validatorRuns = [d \in Dirs |-> ValidateIndexCalls(d, fs[d])
                                         * ValidateIndexSpawns(fs[d])]
    /\ listed = None
    /\ health = None
    /\ ServerUp
    /\ calls = [c \in ConcCalls |-> IdleFrame]
    /\ stores = NoStores
    /\ built = NoneBuilt

RefreshNext ==
    \/ \E c \in ConcCalls, args \in ConcArgs : HandleSearch(c, args)
    \/ \E c \in ConcCalls, res \in RefreshResults : FirstAttemptReturns(c, res)
    \/ \E d \in Dirs, e \in RefreshDirStates : DiskEdit(d, e)
    \/ LoadBegin
    \/ LoadStep

RefreshSpec == RefreshInit /\ [][RefreshNext]_vars

---------------------------------------------------------------------------
(* startServer *)

\* startServer up to the first await inside load(): the registry is
\* constructed and assigned, and load() is entered.
StartServer ==
    /\ server.pc = "notStarted"
    /\ server' = [pc |-> "loading", registry |-> "set"]
    /\ LoadEntry
    /\ UNCHANGED <<cwd, paths>>

Connect_WhileLoading ==
    /\ server.pc = "loading"
    /\ server' = [server EXCEPT !.pc = "connected"]
    /\ UNCHANGED <<regVars, searchVars, toolVars, cwd, paths>>

\* startServer after `await datasetRegistry.load()`: the handlers are
\* registered and the transport is connected.
Connect ==
    /\ server.pc = "loading"
    /\ loadPc = "idle"
    /\ loadsDone >= 1
    /\ server' = [server EXCEPT !.pc = "connected"]
    /\ UNCHANGED <<regVars, searchVars, toolVars, cwd, paths>>

\* The CallToolRequest handler: it exists once the transport is connected.
ServeSearch(c, args) == server.pc = "connected" /\ HandleSearch(c, args)

ServeListDatasets(args) == server.pc = "connected" /\ ListDatasets(args)

\* A process that starts the server, with tool calls arriving over the
\* transport (the calls of Calls) and code of the same process calling
\* handleSearch itself (the other calls), at any time.
ServedCalls == Calls

DirectCalls == ConcCalls \ Calls

StartupDirStates ==
    {e \in DirStates : e.kind \in {"removed", "badjson"}}
    \cup {[kind |-> "ok", id |-> "docs-a"]}

StartupArgs ==
    ConcArgs \cup {[dataset |-> "", query |-> Query(0, 5, 0), topK |-> NoTopK]}

StartupInit ==
    /\ rootExists = TRUE
    /\ fs \in [Dirs -> StartupDirStates]
    /\ datasets = [i \in IdPool |-> Absent]
    /\ loadErrors = <<>>
    /\ loadPc = "idle"
    /\ directories = <<>>
    /\ loadIdx = 0
    /\ loadsDone = 0
    /\ fsEdits = 0
    /\ snapBefore = Catalog([i \in IdPool |-> Absent], <<>>)
    /\ validatorRuns = [d \in Dirs |-> 0]
    /\ listed = None
    /\ health = None
    /\ cwd = StartDir
    /\ paths = None
    /\ server = [pc |-> "notStarted", registry |-> "undefined"]
    /\ calls = [c \in ConcCalls |-> IdleFrame]
    /\ stores = NoStores
    /\ built = NoneBuilt

StartupNext ==
    \/ StartServer
    \/ LoadStep
    \/ Connect
    \/ \E c \in ServedCalls, args \in StartupArgs : ServeSearch(c, args)
    \/ \E args \in ListArgs : ServeListDatasets(args)
    \/ \E c \in DirectCalls, args \in StartupArgs : HandleSearch(c, args)
    \/ \E c \in ConcCalls, res \in RefreshResults : FirstAttemptReturns(c, res)

StartupSpec == StartupInit /\ [][StartupNext]_vars

\* A server whose registry was loaded at startup from any disk, serving the
\* diagnostic calls: listings and health checks.
ListDirStates ==
    {e \in DirStates : e.kind \in {"removed", "badjson", "noindex", "ok"}}

ListInit ==
    /\ rootExists = TRUE
    /\ fs \in [Dirs -> ListDirStates]
    /\ LET cat == LoadRest(Catalog([i \in IdPool |-> Absent], <<>>),
                           ReadDir(fs), 1, fs, 1)
       IN /\ datasets = cat.datasets
          /\ loadErrors = cat.loadErrors
    /\ loadPc = "idle"
    /\ directories = ReadDir(fs)
    /\ loadIdx = Len(directories)
    /\ loadsDone = 1
    /\ fsEdits = 0
    /\ snapBefore = Catalog([i \in IdPool |-> Absent], <<>>)
    /\ validatorRuns = [d \in Dirs |-> ValidateIndexCalls(d, fs[d])
                                         * ValidateIndexSpawns(fs[d])]
    /\ listed = None
    /\ health = None
    /\ ServerUp
    /\ calls = NoCalls
    /\ stores = NoStores
    /\ built = NoneBuilt

ListNext ==
    \/ \E args \in ListArgs : ListDatasets(args)
    \/ \E res \in HealthResults : HealthCheck(res)

ListSpec == ListInit /\ [][ListNext]_vars

\* The loaded server of ListInit with callers that write to what the
\* registry and the stores hand out, and searches that follow.
AliasNext ==
    \/ \E id \in IdPool : CallerWritesDataset(id)
    \/ \E id \in IdPool : CallerWritesStoreDataset(id)
    \/ CallerEmptiesErrors
    \/ \E c \in Calls, args \in ConcArgs : HandleSearch(c, args)

AliasSpec == ListInit /\ [][AliasNext]_vars

\* A fresh registry loading a disk once while health checks and searches of
\* docs-a run: every use the program makes of the bridge client.
BridgeDirStates ==
    {e \in DirStates : e.kind \in {"ok", "validatorError", "noindex"} /\ e.id = "docs-a"}

BridgeArgs ==
    [dataset : {"docs-a"}, query : {Query(0, 5, 0)}, topK : {NoTopK}]

BridgeHealthResults ==
    {r \in HealthResults : r.exitCode # 1}

BridgeInit ==
    /\ rootExists = TRUE
    /\ fs \in [Dirs -> BridgeDirStates]
    /\ FreshRegistry
    /\ calls = NoCalls
    /\ stores = NoStores
    /\ built = NoneBuilt

BridgeNext ==
    \/ (loadsDone = 0 /\ LoadBegin)
    \/ LoadStep
    \/ \E res \in BridgeHealthResults : HealthCheck(res)
    \/ \E c \in Calls, args \in BridgeArgs : HandleSearch(c, args)
    \/ \E c \in Calls, res \in ConcResults : FirstAttemptReturns(c, res)
    \/ \E c \in Calls : DelayTick(c)
    \/ \E c \in Calls : Retry(c)
    \/ \E c \in Calls, res \in ConcResults : RetryReturns(c, res)

BridgeSpec == BridgeInit /\ [][BridgeNext]_vars

---------------------------------------------------------------------------
(* Claims about the registry *)

EmptyCatalog == Catalog([i \in IdPool |-> Absent], <<>>)

Present == {d \in Dirs : fs[d].kind # "removed"}

BadDirs == {d \in Present : fs[d].kind \in FailingKinds}

GoodDirs == Present \ BadDirs

DistinctIds == \A d1, d2 \in GoodDirs : d1 # d2 => fs[d1].id # fs[d2].id

FirstLoadDone == loadsDone = 1 /\ loadPc = "idle" /\ rootExists

\* C1: load isolation.  When the first load() of a registry has returned, every
\* subdirectory with a loadable manifest is registered as ready whatever the
\* other subdirectories hold, every failing one has left one load error, and
\* with distinct ids and exactly one failing subdirectory among N the other
\* N-1 are ready and getErrors() has exactly 1 entry.
C1_LoadIsolation ==
    FirstLoadDone =>
        /\ \A d \in GoodDirs : Has(fs[d].id)
        /\ Len(GetErrors) = Cardinality(BadDirs)
        /\ (DistinctIds /\ Cardinality(BadDirs) = 1) =>
               /\ Cardinality(ListReady) = Cardinality(Present) - 1
               /\ Len(GetErrors) = 1

\* C1 witness: a failing subdirectory was processed before a loadable one,
\* and the loadable one is registered.
C1_Witness ==
    /\ FirstLoadDone
    /\ Cardinality(BadDirs) = 1
    /\ DistinctIds
    /\ \E b \in BadDirs, g \in GoodDirs : b < g /\ Has(fs[g].id)
    /\ Len(GetErrors) = 1

\* C2: reload replaces the whole snapshot.  When a second or later load() has
\* returned, datasets and errors are exactly what that pass found on the disk:
\* the catalog a fresh registry would hold after loading the same disk.
C2_ReloadReplacesSnapshot ==
    (loadsDone >= 2 /\ loadPc = "idle") =>
        Catalog(datasets, loadErrors)
            = LoadRest(EmptyCatalog, ReadDir(fs), 1, fs, loadsDone)

\* C3: a reload is never partially visible.  While load() is suspended at an
\* await, the catalog a reader sees is the one from before the load or the one
\* the load leaves when it returns.
C3_NeverPartiallyVisible ==
    loadPc = "running" =>
        \/ Catalog(datasets, loadErrors) = snapBefore
        \/ Catalog(datasets, loadErrors)
               = LoadRest(Catalog(datasets, loadErrors), directories, loadIdx, fs,
                          loadsDone + 1)

\* C17: getStats() satisfies total = ready + errors in every state, ready
\* being the number of datasets listReady() returns and errors the length of
\* getErrors(): before any load, with a missing root, with id collisions,
\* during and after reloads.
C17_StatsAddUp ==
    /\ GetStats.total = GetStats.ready + GetStats.errors
    /\ GetStats.ready = Cardinality({i \in IdPool : Has(i)})
    /\ GetStats.errors = Len(GetErrors)

\* C17 witness: a reload has returned over two subdirectories that declare the
\* same id, with a load error on record.
C17_Witness ==
    /\ loadsDone >= 2 /\ loadPc = "idle"
    /\ \E d1, d2 \in GoodDirs : d1 # d2 /\ fs[d1].id = fs[d2].id
    /\ GetStats = [total |-> 2, ready |-> 1, errors |-> 1]

\* The subdirectories whose manifest failed in the load pass that returned last.
FailedLast ==
    {d \in Dirs : \E k \in DOMAIN loadErrors :
         /\ loadErrors[k].manifestPath = ManifestPath(d)
         /\ loadErrors[k].timestamp = loadsDone}

\* C18: the registry holds only ready datasets.  Every entry has status ready,
\* has(id) is true exactly when get(id) is defined, list() equals listReady(),
\* and once a load has returned a subdirectory whose manifest failed in it has
\* no entry: it appears in getErrors() only.
C18_OnlyReadyEntries ==
    /\ \A ds \in List : ds.status = "ready"
    /\ \A i \in IdPool : Has(i) <=> Get(i) # Absent
    /\ List = ListReady
    /\ (loadsDone >= 1 /\ loadPc = "idle") =>
           \A d \in FailedLast : \A ds \in List : ds.src # d

\* C19: a load() that finds no root directory returns and leaves the registry
\* empty: list() and getErrors() empty, stats all 0.
C19_MissingRootEmptyRegistry ==
    [][(~rootExists /\ loadsDone' = loadsDone + 1) =>
           /\ datasets' = [i \in IdPool |-> Absent]
           /\ loadErrors' = <<>>
           /\ GetStats' = [total |-> 0, ready |-> 0, errors |-> 0]]_vars

ErrorsOf(d) == {k \in DOMAIN GetErrors : GetErrors[k].manifestPath = ManifestPath(d)}

MissingPath(d) == fs[d].kind \in {"noindex", "nometadata"}

\* C21: when the first load() has returned, a manifest whose resolved index
\* path or metadata path does not exist has left exactly one load error, whose
\* message carries the full resolved path; no dataset is registered from it and
\* the validator was not run for it.
C21_MissingPathIsLoadError ==
    FirstLoadDone =>
        \A d \in Present :
            MissingPath(d) =>
                /\ Cardinality(ErrorsOf(d)) = 1
                /\ \A k \in ErrorsOf(d) :
                       GetErrors[k].error[2]
                           = IF fs[d].kind = "noindex"
                             THEN <<"root", d, "index">>
                             ELSE <<"root", d, "metadata.json">>
                /\ \A ds \in List : ds.src # d
                /\ validatorRuns[d] = 0

\* C21 witness: one manifest lacked its index, another its metadata file.
C21_Witness ==
    /\ FirstLoadDone
    /\ \E d1, d2 \in Present :
           fs[d1].kind = "noindex" /\ fs[d2].kind = "nometadata"
    /\ Len(GetErrors) = 2
    /\ List = {}

\* The loadable subdirectories that declare id i.
Declaring(i) == {d \in GoodDirs : fs[d].id = i}

\* C28: id collision is last-write-wins.  When the first load() has returned
\* and several loadable subdirectories declare one id, get(id) is the dataset
\* of the one processed last, there is one entry for the id, and none of them
\* has a load error.
C28_LastWriteWins ==
    FirstLoadDone =>
        \A i \in IdPool :
            Cardinality(Declaring(i)) >= 2 =>
                /\ Has(i)
                /\ \A d \in Declaring(i) : Get(i).src >= d
                /\ Get(i).src \in Declaring(i)
                /\ Get(i).name = <<"Dataset of ", Get(i).src>>
                /\ Cardinality({ds \in List : ds.id = i}) = 1
                /\ \A d \in Declaring(i) : ErrorsOf(d) = {}

\* C28 witness: two loadable subdirectories declared docs-a.
C28_Witness ==
    /\ FirstLoadDone
    /\ Cardinality(Declaring("docs-a")) >= 2
    /\ Get("docs-a").src = NumDirs
    /\ GetErrors = <<>>

---------------------------------------------------------------------------
(* Claims about KnowledgeStore.search and PythonBridge.search *)

Searched(c) == calls[c].pc = "done" /\ calls[c].attempts >= 1

\* C4: two-attempt cap.  A search never issues a third bridge call; when it
\* is over it has issued exactly one bridge call if the first attempt
\* succeeded and exactly two if the first attempt failed.
C4_TwoAttemptCap ==
    \A c \in Calls :
        /\ calls[c].attempts <= 2
        /\ Searched(c) =>
               /\ calls[c].firstError = None => calls[c].attempts = 1
               /\ calls[c].firstError # None => calls[c].attempts = 2

\* C4 witness: a search is over after two failed attempts.
C4_Witness ==
    \E c \in Calls :
        /\ Searched(c)
        /\ calls[c].attempts = 2
        /\ calls[c].lastBridge.kind = "error"

\* C5: retry ordering.  The second bridge attempt has been issued only if the
\* first one failed and the whole 1000 ms delay has passed; during the delay
\* only one attempt has been issued; a search whose first attempt succeeded
\* has waited for nothing.
C5_RetryOrdering ==
    \A c \in Calls :
        /\ calls[c].attempts = 2 =>
               calls[c].firstError # None /\ calls[c].waited >= RETRY_DELAY_MS
        /\ calls[c].pc = "delay" => calls[c].attempts = 1
        /\ calls[c].firstError = None => calls[c].waited = 0

\* C5 witness: the retry is in flight, after the delay.
C5_Witness ==
    \E c \in Calls :
        /\ calls[c].pc = "attempt2"
        /\ calls[c].firstError # None
        /\ calls[c].waited >= RETRY_DELAY_MS

RetrySucceeded(c) ==
    /\ Searched(c)
    /\ calls[c].attempts = 2
    /\ calls[c].lastExec.exitCode = 0
    /\ calls[c].lastExec.stdout.kind = "json"

\* C6: a search whose first attempt failed and whose retry succeeded returns
\* exactly the results list the retry's subprocess printed.
C6_RetryResultReturned ==
    \A c \in Calls :
        RetrySucceeded(c) =>
            /\ calls[c].outcome = [kind |-> "results",
                                   results |-> calls[c].lastExec.stdout.results]
            /\ ~calls[c].response.isError

\* C6 witness: a retry that succeeded with two results.
C6_Witness ==
    \E c \in Calls :
        /\ RetrySucceeded(c)
        /\ calls[c].firstError # None
        /\ Len(calls[c].outcome.results) = 2

BothFailed(c) ==
    /\ Searched(c)
    /\ calls[c].attempts = 2
    /\ calls[c].lastBridge.kind = "error"

\* C7: when both attempts fail the search fails with one error that names the
\* dataset id and carries the message of the retry's failure, and the caller
\* gets no results.
C7_AggregatedError ==
    \A c \in Calls :
        BothFailed(c) =>
            /\ calls[c].outcome.kind = "error"
            /\ calls[c].outcome.message
                   = <<"Search failed for dataset ", calls[c].args.dataset, ": ">>
                         \o calls[c].lastBridge.message
            /\ calls[c].response.isError
            /\ calls[c].response.results = <<>>

\* C7 witness: both attempts failed, with different messages.
C7_Witness ==
    \E c \in Calls :
        /\ BothFailed(c)
        /\ calls[c].firstError.message # calls[c].lastBridge.message

\* C8: every search call terminates.  Given that every subprocess exits or
\* is killed at its timeout and that timers fire, a call that has started
\* is eventually over.
C8_SearchTerminates ==
    \A c \in Calls :
        (calls[c].pc # "idle") ~> (calls[c].pc = "done" /\ calls[c].response # None)

\* C8 witness: a call is over after the longest path, two attempts and a delay.
C8_Witness ==
    \E c \in Calls :
        /\ calls[c].pc = "done"
        /\ calls[c].attempts = 2
        /\ calls[c].waited >= RETRY_DELAY_MS
        /\ calls[c].response # None

\* C9: timeout classification.  A bridge search whose subprocess was killed at
\* the timeout fails with "Python bridge timed out after <timeout>ms".
C9_TimeoutClassified ==
    \A c \in Calls :
        (calls[c].lastExec # None /\ calls[c].lastExec.timedOut) =>
            /\ calls[c].lastBridge.kind = "error"
            /\ calls[c].lastBridge.message
                   = <<"Python bridge timed out after ", DEFAULT_TIMEOUT_MS, "ms">>

NonZeroExit(c) ==
    /\ calls[c].lastExec # None
    /\ ~calls[c].lastExec.timedOut
    /\ calls[c].lastExec.exitCode # 0

\* C10: a bridge search whose subprocess exited with a non-zero status fails
\* with "Python bridge failed: " followed by stderr, else stdout, else the
\* fixed fallback text, and resolves with no response.
C10_ExecutionError ==
    \A c \in Calls :
        NonZeroExit(c) =>
            LET r == calls[c].lastExec
                diag == IF r.stderr.kind # "empty" THEN r.stderr.text
                        ELSE IF r.stdout.kind # "empty" THEN r.stdout.text
                        ELSE "Unknown Python bridge error"
            IN /\ calls[c].lastBridge.kind = "error"
               /\ calls[c].lastBridge.message = <<"Python bridge failed: ", diag>>

\* C10 witness: an exit status 1 with text on both streams; stderr is reported.
C10_Witness ==
    \E c \in Calls :
        /\ NonZeroExit(c)
        /\ calls[c].lastExec.stderr.kind # "empty"
        /\ calls[c].lastExec.stdout.kind # "empty"
        /\ calls[c].lastBridge.message = <<"Python bridge failed: ", "Traceback">>

\* Exit status 0 and a stdout that is no response: not JSON, or JSON without a
\* results list.
Unparsable(res) ==
    /\ ~res.timedOut
    /\ res.exitCode = 0
    /\ res.stdout.kind # "json"

\* C11: a bridge search whose subprocess exited with status 0 and printed
\* something that is no parsable response fails with an error.
C11_ProtocolError ==
    \A c \in Calls :
        (calls[c].lastExec # None /\ Unparsable(calls[c].lastExec)) =>
            calls[c].lastBridge.kind = "error"

\* C12: one store handle per dataset id.  While the cache is not cleared at
\* most one store is constructed for an id, and every call that took a store
\* for that id holds that same instance.
C12_SingleStoreHandle ==
    /\ \A i \in IdPool : built[i] <= 1
    /\ \A c1, c2 \in DOMAIN calls :
           (calls[c1].handle # None /\ calls[c2].handle # None
                /\ calls[c1].handle.id = calls[c2].handle.id) =>
               /\ calls[c1].handle = calls[c2].handle
               /\ calls[c1].store = calls[c2].store

\* C12 witness: two calls took the store of docs-a, one is over and the other
\* still has its subprocess running.
C12_Witness ==
    \E c1, c2 \in DOMAIN calls :
        /\ c1 # c2
        /\ calls[c1].handle # None /\ calls[c1].handle.id = "docs-a"
        /\ calls[c2].handle # None /\ calls[c2].handle.id = "docs-a"
        /\ calls[c1].pc = "done"
        /\ calls[c2].pc = "attempt1"
        /\ built["docs-a"] = 1

\* C26: concurrent searches do not block each other.  Whatever the other
\* calls are doing, a call that has not started can issue its bridge call for
\* either dataset, a running subprocess can return, and a retry whose delay is
\* over can be issued.
C26_NoMutualExclusion ==
    \A c \in DOMAIN calls :
        /\ calls[c].pc = "idle" =>
               \A args \in ConcArgs : ENABLED HandleSearch(c, args)
        /\ calls[c].pc = "attempt1" =>
               \A res \in ConcResults : ENABLED FirstAttemptReturns(c, res)
        /\ (calls[c].pc = "delay" /\ calls[c].waited >= RETRY_DELAY_MS) =>
               ENABLED Retry(c)

\* C26 witness: one call for docs-a waits in its retry delay while another
\* call for docs-a has its subprocess running.
C26_Witness ==
    \E c1, c2 \in DOMAIN calls :
        /\ c1 # c2
        /\ calls[c1].pc = "delay" /\ calls[c1].args.dataset = "docs-a"
        /\ calls[c2].pc = "attempt1" /\ calls[c2].args.dataset = "docs-a"
        /\ calls[c2].sent = <<calls[c2].request>>

---------------------------------------------------------------------------
(* Claims about handleSearch *)

\* The field of the arguments that fails SearchQuerySchema, "" when none does.
FailingField(args) ==
    IF StrLen(args.dataset) = 0 \/ StrLen(args.dataset) > 64 THEN "dataset"
    ELSE IF args.query.body = 0 \/ args.query.body > 1024 THEN "query"
    ELSE IF args.topK # NoTopK /\ (args.topK < 1 \/ args.topK > 100) THEN "topK"
    ELSE ""

ReadyIds == {i \in IdPool : datasets[i] # Absent /\ datasets[i].status = "ready"}

NotFound(c) ==
    /\ calls[c].pc = "done"
    /\ FailingField(calls[c].args) = ""
    /\ calls[c].args.dataset \notin ReadyIds

\* C14: a well-formed search for an id the registry does not hold as ready
\* gets an isError response listing exactly the ready ids; no bridge call is
\* issued and no store handle is created for that id.
C14_NotFoundListsReady ==
    /\ \A c \in Calls :
           NotFound(c) =>
               /\ calls[c].response.isError
               /\ calls[c].response.text
                      = <<"Dataset '", calls[c].args.dataset,
                          "' not found. Available datasets: ", ReadyIds>>
               /\ calls[c].attempts = 0
               /\ calls[c].handle = None
    /\ \A i \in IdPool \ ReadyIds : stores[i] = Absent /\ built[i] = 0

\* C14 witness: a search for "unknown-id" was answered while docs-a is ready.
C14_Witness ==
    \E c \in Calls :
        /\ NotFound(c)
        /\ calls[c].args.dataset = "unknown-id"
        /\ ReadyIds = {"docs-a"}

EmptyAnswer(c) ==
    /\ calls[c].lastExec # None
    /\ ~calls[c].lastExec.timedOut
    /\ calls[c].lastExec.exitCode = 0
    /\ calls[c].lastExec.stdout = JsonResponse(<<>>)

\* C15: an empty results list is a success.  The search is over with an empty
\* list and a response without isError, and when the empty list came from the
\* first attempt there was no retry.
C15_EmptyIsSuccess ==
    \A c \in Calls :
        EmptyAnswer(c) =>
            /\ calls[c].pc = "done"
            /\ calls[c].outcome = [kind |-> "results", results |-> <<>>]
            /\ ~calls[c].response.isError
            /\ calls[c].firstError = None =>
                   calls[c].attempts = 1 /\ calls[c].waited = 0

\* C15 witness: the first attempt answered with an empty list.
C15_Witness ==
    \E c \in Calls :
        /\ EmptyAnswer(c)
        /\ calls[c].attempts = 1
        /\ calls[c].response.isError = FALSE

\* C16: query-time failures are surfaced.  When both attempts failed the
\* response is an isError "Search failed" response that names the dataset id,
\* and every call that is over has a response (handleSearch resolves).
C16_FailuresSurfaced ==
    \A c \in Calls :
        /\ BothFailed(c) =>
               /\ calls[c].response.isError
               /\ calls[c].response.text[1] = "Search failed: "
               /\ \E i \in DOMAIN calls[c].response.text :
                      calls[c].response.text[i] = calls[c].args.dataset
        /\ calls[c].pc = "done" =>
               calls[c].response # None /\ calls[c].response.isError \in BOOLEAN

\* C16 witness: both attempts failed and the response is an error.
C16_Witness ==
    \E c \in Calls :
        /\ BothFailed(c)
        /\ calls[c].response.isError
        /\ calls[c].args.dataset = "docs-a"

\* C24: citation invariant.  Every result a successful search returns has a
\* non-empty path, whatever the subprocess printed.
C24_ResultsHavePath ==
    \A c \in Calls :
        (calls[c].pc = "done" /\ calls[c].outcome # None
             /\ calls[c].outcome.kind = "results") =>
            \A k \in DOMAIN calls[c].outcome.results :
                calls[c].outcome.results[k].path # ""

Rejected(c) ==
    /\ calls[c].pc = "done"
    /\ calls[c].response.isError
    /\ calls[c].response.text[1] = "Invalid search parameters: "

C27_HandoffsAreCopies ==
    /\ Catalog(datasets, loadErrors)
           = LoadRest(Catalog([i \in IdPool |-> Absent], <<>>), ReadDir(fs), 1, fs, 1)
    /\ \A i \in IdPool :
           stores[i] # Absent =>
               stores[i].index = <<"root", stores[i].src, "index">>
    /\ \A c \in Calls :
           calls[c].request # None =>
               calls[c].request.indexPath = <<"root", calls[c].store.src, "index">>

\* The bridge calls of a search that have returned.
Returned(f) == f.attempts - (IF f.pc \in {"attempt1", "attempt2"} THEN 1 ELSE 0)

C30_TopKResolution ==
    \A c \in Calls :
        calls[c].request # None =>
            /\ calls[c].request.topK
                   = IF calls[c].raw.topK = NoTopK
                     THEN Get(calls[c].raw.dataset).defaultTopK
                     ELSE calls[c].raw.topK
            /\ calls[c].request.indexPath = Get(calls[c].raw.dataset).index
            /\ calls[c].request.metadataPath = Get(calls[c].raw.dataset).metadata
            /\ calls[c].request.query = Query(0, calls[c].raw.query.body, 0)
            /\ Len(calls[c].sent) = calls[c].attempts
            /\ \A k \in DOMAIN calls[c].sent : calls[c].sent[k] = calls[c].request

\* C30 witness: a search without topK was retried, both requests carrying
\* the defaultTopK the manifest of docs-a declares.
C30_Witness ==
    \E c \in Calls :
        /\ calls[c].pc = "done" /\ calls[c].attempts = 2
        /\ calls[c].raw.topK = NoTopK
        /\ calls[c].request.topK = 20
        /\ calls[c].sent = <<calls[c].request, calls[c].request>>

---------------------------------------------------------------------------
(* Claims about handleListDatasets *)

Listed == listed # None /\ ~listed.isError

\* The directory whose manifest a load error is about.
DirOf(error) == CHOOSE d \in Dirs : error.manifestPath = <<"root", d, "manifest.json">>

\* C22: a listing shows the ready datasets with id, name, description and
\* status ready; with includeErrors = true it also shows one entry per load
\* error on record, with the failing manifest's directory name as id, status
\* error and the failure message; without it, no such entry.
C22_ListingContent ==
    Listed =>
        /\ listed.ready
               = {[id |-> ds.id, name |-> ds.name, description |-> ds.description,
                   status |-> "ready", error |-> <<>>] : ds \in ListReady}
        /\ IF listed.args.includeErrors = "true"
           THEN /\ Len(listed.errors) = Len(GetErrors)
                /\ \A k \in DOMAIN GetErrors :
                       /\ listed.errors[k].id = DirOf(GetErrors[k])
                       /\ listed.errors[k].status = "error"
                       /\ listed.errors[k].error = GetErrors[k].error
           ELSE listed.errors = <<>>

\* C22 witness: a listing with includeErrors = true over one ready dataset and
\* one failed manifest.
C22_Witness ==
    /\ Listed
    /\ listed.args.includeErrors = "true"
    /\ Cardinality(listed.ready) = 1
    /\ Len(listed.errors) = 1
    /\ listed.errors[1].id \in Dirs

\* C23: every listing carries the registry's counts total, ready and
\* errors, with total = ready + errors, whatever includeErrors is.
C23_ListingCounts ==
    Listed =>
        /\ GetStats.total = GetStats.ready + GetStats.errors
        /\ listed.footer = <<"Total: ", GetStats.total, " datasets | Ready: ",
                              GetStats.ready, " | Errors: ", GetStats.errors>>

---------------------------------------------------------------------------
(* Claims about the path of the results from the bridge to the caller *)

\* A search that ended with a bridge response whose results are a list.
Answered(c) ==
    /\ calls[c].pc = "done"
    /\ calls[c].lastBridge # None
    /\ calls[c].lastBridge.kind = "response"
    /\ calls[c].lastBridge.shape = "list"

---------------------------------------------------------------------------
(* Claims about the manifest file and the traversal *)

SizeMessage == "Manifest file exceeds maximum size ("

Subdirectories == {d \in Dirs : fs[d].kind \notin {"removed", "file"}}

ManifestDir == Dirname(paths.manifestPath)

\* What a path value of the manifest stands for: itself when absolute, the
\* path below the manifest's directory otherwise.
Denotes(pathValue) ==
    IF IsAbsolute(pathValue) THEN Normalize(pathValue)
    ELSE Normalize(ManifestDir \o pathValue)

---------------------------------------------------------------------------
(* More claims about handleListDatasets *)

Malformed(args) ==
    \/ args.shape \in {"null", "undefined", "array"}
    \/ args.includeErrors \notin {"omitted", "true", "false"}
    \/ args.extraKey

\* C35: handleListDatasets turns malformed arguments down before it touches
\* the registry.  A call with null, undefined, an array, a non-boolean
\* includeErrors or an unknown property is answered with isError and made no
\* call on the registry; the empty object is accepted and lists as
\* includeErrors = false does.
C35_MalformedArgsRejectedFirst ==
    listed # None =>
        /\ Malformed(listed.args) =>
               /\ listed.isError
               /\ listed.reads = <<>>
               /\ listed.header[1] = "Invalid arguments: "
               /\ listed.ready = {} /\ listed.errors = <<>>
        /\ ~Malformed(listed.args) =>
               /\ ~listed.isError
               /\ listed.reads[1] = "getDatasetRegistry"
        /\ listed.args = [shape |-> "object", includeErrors |-> "omitted",
                          extraKey |-> FALSE] =>
               /\ ~listed.isError
               /\ listed.errors = <<>>
               /\ listed = [HandleListDatasets([shape |-> "object",
                                                includeErrors |-> "false",
                                                extraKey |-> FALSE])
                               EXCEPT !.args = listed.args]

\* C35 witness: a call with an array for arguments was turned down over a
\* registry that holds a ready dataset and a load error.
C35_Witness ==
    /\ listed # None
    /\ listed.args.shape = "array"
    /\ listed.isError
    /\ listed.reads = <<>>
    /\ ListReady # {}
    /\ GetErrors # <<>>

---------------------------------------------------------------------------
(* Claims about a load pass as a whole *)

\* The step of load() for directory d pushed one load error about d's manifest
\* and registered nothing.
PushedError(d) ==
    /\ Len(loadErrors') = Len(loadErrors) + 1
    /\ SubSeq(loadErrors', 1, Len(loadErrors)) = loadErrors
    /\ loadErrors'[Len(loadErrors')].manifestPath = ManifestPath(d)
    /\ datasets' = datasets

\* The step of load() for directory d registered d's dataset and pushed nothing.
RegisteredOne(d) ==
    /\ loadErrors' = loadErrors
    /\ \E i \in IdPool :
           /\ datasets'[i] # Absent
           /\ datasets'[i].src = d
           /\ \A j \in IdPool \ {i} : datasets'[j] = datasets[j]

\* C36: exactly one outcome per subdirectory per load pass.  On a fresh
\* registry, the turn of load() for a subdirectory either registers one dataset
\* or pushes exactly one load error, never both and never neither; a
\* subdirectory without manifest.json gets a load error; and when load() has
\* returned, getErrors() lists the errors in the order the subdirectories were
\* processed, one per failing subdirectory.
C36_OneOutcomePerSubdirectory ==
    /\ [][loadPc = "running" =>
              LET d == directories[loadIdx] IN
              /\ PushedError(d) \/ RegisteredOne(d)
              /\ ~(PushedError(d) /\ RegisteredOne(d))
              /\ fs[d].kind = "nomanifest" => PushedError(d)]_vars
    /\ [](FirstLoadDone =>
              /\ \A d \in Present : Cardinality(ErrorsOf(d)) <= 1
              /\ \A d \in Present :
                     ErrorsOf(d) = {} <=> (\E ds \in List : ds.id = fs[d].id)
                                           /\ fs[d].kind \in ReadyKinds
              /\ \A k1, k2 \in DOMAIN GetErrors :
                     k1 < k2 => DirOf(GetErrors[k1]) < DirOf(GetErrors[k2]))

\* C36 witness: the first load of a root with two subdirectories without
\* manifest.json has returned, and their two errors stand in processing order.
C36_Witness ==
    /\ FirstLoadDone
    /\ \A d \in Dirs : fs[d].kind = "nomanifest"
    /\ Len(GetErrors) = NumDirs
    /\ \A k \in DOMAIN GetErrors : GetErrors[k].manifestPath = ManifestPath(k)
    /\ List = {}

---------------------------------------------------------------------------
(* Claims about searches across reloads *)

\* C37: searches use the registry's current dataset.  The index path and the
\* metadata path of every bridge request handleSearch has issued are those of
\* the dataset registry.get(id) returned to that call, also when the registry
\* was reloaded from a changed manifest after the store of the id was cached.
C37_SearchUsesCurrentDataset ==
    \A c \in DOMAIN calls :
        calls[c].request # None =>
            /\ calls[c].request.indexPath = calls[c].dataset.index
            /\ calls[c].request.metadataPath = calls[c].dataset.metadata

---------------------------------------------------------------------------
(* Claims about the ids of a listing *)

\* The id an entry of a listing shows.
ShownId(item) == IF item.status = "error" THEN DirName(item.id) ELSE item.id

\* C38: no dataset id is listed twice.  In every listing no two entries show
\* the same id; in particular no id is shown both as ready and as error.
C38_NoIdListedTwice ==
    Listed =>
        /\ \A r1, r2 \in listed.ready : ShownId(r1) = ShownId(r2) => r1 = r2
        /\ \A k1, k2 \in DOMAIN listed.errors :
               ShownId(listed.errors[k1]) = ShownId(listed.errors[k2]) => k1 = k2
        /\ \A r \in listed.ready : \A k \in DOMAIN listed.errors :
               ShownId(r) # ShownId(listed.errors[k])

---------------------------------------------------------------------------
(* Claims about startServer *)

\* The registry as callers may rely on it: assigned, and its load() returned.
RegistryLoaded == RegistryInitialized /\ loadPc = "idle" /\ loadsDone >= 1

\* Call c enters handleSearch in this step.
Enters(c) == calls[c].pc = "idle" /\ calls'[c].pc # "idle"

\* C39: startup ordering.  The transport is connected only when load() has
\* returned, so every tool call that arrives over it finds the registry
\* assigned and loaded; and handleSearch called with valid arguments while no
\* registry is assigned answers isError "Search failed: ..." without throwing
\* and issues no bridge call.
C39_StartupOrdering ==
    /\ [](server.pc = "connected" => RegistryLoaded)
    /\ [][(server.pc # "connected" /\ server'.pc = "connected") => RegistryLoaded]_vars
    /\ [][\A c \in ServedCalls : Enters(c) => RegistryLoaded]_vars
    /\ [][listed' # listed => RegistryLoaded]_vars
    /\ [][\A c \in DOMAIN calls :
              (Enters(c) /\ ~RegistryInitialized /\ FirstIssue(calls'[c].raw) = "") =>
                  /\ calls'[c].pc = "done"
                  /\ calls'[c].response.isError
                  /\ calls'[c].response.text
                         = <<"Search failed: ", "Dataset registry not initialized">>
                  /\ calls'[c].attempts = 0
                  /\ calls'[c].sent = <<>>
                  /\ calls'[c].spawns = 0
                  /\ stores' = stores]_vars

\* C39 witness: a direct call made before startServer was answered "Search
\* failed", and a call over the transport is searching the loaded registry.
C39_Witness ==
    /\ server.pc = "connected"
    /\ \E c \in DirectCalls :
           /\ calls[c].pc = "done"
           /\ calls[c].outcome = NotInitialized
           /\ calls[c].response.isError
    /\ \E c \in ServedCalls : calls[c].pc = "attempt1"
    /\ Len(GetErrors) >= 1

====
